---------------------------- MODULE Spec2Model ----------------------------
(***************************************************************************)
(* A model of the AI-relevance classification pipeline of the UoL AI       *)
(* Expert Finder (src/ai_classifiers.py, src/utils.py).                    *)
(*                                                                         *)
(* Text is a sequence of one-character strings over a small alphabet:      *)
(* "a" a letter, "1" a digit, " " white space, ";" a chunk delimiter.      *)
(* Scores are percentages (0.60 is 60, 0.99 is 99, 0.15 is 15).            *)
(* The zero-shot classifier, the keyphrase extractor, the sentence         *)
(* segmenter and the language detector are external capabilities: the      *)
(* classifier is a deterministic function that is revealed call by call    *)
(* (variable oracle), the others answer nondeterministically.              *)
(***************************************************************************)
EXTENDS Integers, Sequences, FiniteSets, TLC

(***************************************************************************)
(* Program constants                                                       *)
(***************************************************************************)
AI_RELATED_THRESHOLD == 60
AI_SKILL_MIN_CONFIDENCE == 15
OVERRIDE_HIGH_CONFIDENCE == 99

AI_RELATED_LABELS == <<"Artificial Intelligence", "Not AI">>

\* The positive label and two of the 54 negative labels of the source list.
candidate_labels == <<"AI skill", "Computer science concept", "Misc">>

(***************************************************************************)
(* Bounds of the model                                                     *)
(***************************************************************************)
\* Capacity of the classifier cache, scaled down from lru_cache's 10_000.
maxsize == 2
\* Longest input text of the cascade, in characters.
MaxTextLen == 3
\* Most raw keyphrases the extractor hands to refine_phrases (top_n, scaled).
MaxPhrases == 1
\* Concurrent callers of cached_zero_shot.
NumWorkers == 2
\* Longest phrase list handed to remove_substring_phrases directly.
MaxList == 3
\* Staff-index pages of the school's site.
NumPages == 2
\* Staff profiles of the school.
NumProfiles == 2

Alphabet == {"a", "1", " ", ";"}
Delims == {";", "(", ")"}
Digits == {"1"}
Letters == {"a", "b"}

TextsUpTo(n) == UNION {[1..k -> Alphabet] : k \in 0..n}

(***************************************************************************)
(* Text helpers (src/utils.py and the str methods they use)                *)
(***************************************************************************)
RECURSIVE lstrip(_)
lstrip(s) == IF s = <<>> \/ Head(s) # " " THEN s ELSE lstrip(Tail(s))

RECURSIVE rstrip(_)
rstrip(s) ==
    IF s = <<>> \/ s[Len(s)] # " " THEN s ELSE rstrip(SubSeq(s, 1, Len(s) - 1))

\* A faulty strip: the text as it is.
strip_nothing(s) == s

\* str.strip()
strip(s) == rstrip(lstrip(s))

NonEmpty(s) == s # <<>>

RECURSIVE MapStrip(_)
MapStrip(ss) == IF ss = <<>> THEN <<>> ELSE <<strip(Head(ss))>> \o MapStrip(Tail(ss))

\* re.split(r"[;()]+", s): the pieces between runs of delimiters.
RECURSIVE SplitRuns(_, _, _)
SplitRuns(s, piece, inRun) ==
    IF s = <<>> THEN <<piece>>
    ELSE IF Head(s) \in Delims
         THEN IF inRun THEN SplitRuns(Tail(s), <<>>, TRUE)
                       ELSE <<piece>> \o SplitRuns(Tail(s), <<>>, TRUE)
         ELSE SplitRuns(Tail(s), Append(piece, Head(s)), FALSE)

split_chunks(sentence) ==
    SelectSeq(MapStrip(SplitRuns(sentence, <<>>, FALSE)), NonEmpty)

\* str.split(): the maximal runs of non-space characters.
RECURSIVE SplitSpace(_, _)
SplitSpace(s, piece) ==
    IF s = <<>> THEN IF piece = <<>> THEN <<>> ELSE <<piece>>
    ELSE IF Head(s) = " "
         THEN (IF piece = <<>> THEN <<>> ELSE <<piece>>) \o SplitSpace(Tail(s), <<>>)
         ELSE SplitSpace(Tail(s), Append(piece, Head(s)))

split(s) == SplitSpace(s, <<>>)

\* str.isdigit()
isdigit(s) == s # <<>> /\ \A i \in 1..Len(s) : s[i] \in Digits

\* re.search(r"\d{4}", s)
HasDigitRun(s) ==
    \E i \in 1..(Len(s) - 3) : \A j \in i..(i + 3) : s[j] \in Digits

\* A variant that tests for the four-digit run only.
is_year_only(phrase) == HasDigitRun(strip(phrase))

\* str.lower() leaves every character of the alphabet as it is: the alphabet
\* holds no upper-case letter.
is_year_or_numeric(phrase) ==
    LET cleaned == strip(phrase)
    IN  HasDigitRun(cleaned) \/ isdigit(cleaned)

\* A faulty is_english: a failure of the detector counts as English.
is_english_unless_other(text, detected) ==
    IF text = <<>> THEN FALSE
    ELSE IF Len(split(text)) < 3 THEN TRUE
    ELSE detected # "fr"

\* detected is the language detector's answer for text: "en", another
\* language code, or "raise" when detect() throws.
is_english(text, detected) ==
    IF text = <<>> THEN FALSE
    ELSE IF Len(split(text)) < 3 THEN TRUE
    ELSE detected = "en"

DetectorAnswers == {"en", "fr", "raise"}


(***************************************************************************)
(* The zero-shot classifier (external capability, src/ai_classifiers.py    *)
(* line 29): ranked labels with their scores.                              *)
(***************************************************************************)
Result(labels, scores) == [labels |-> labels, scores |-> scores]

\* Answers to the two-label question: "Artificial Intelligence" at 99, 80,
\* 60 (ranked first) or 40 (ranked second).
BinaryResults ==
    { Result(<<"Artificial Intelligence", "Not AI">>, <<s, 100 - s>>) : s \in {60, 80, 99} }
    \cup { Result(<<"Not AI", "Artificial Intelligence">>, <<60, 40>>) }

\* Answers to the many-label question: "AI skill" ranked first, ranked
\* second at exactly the minimum confidence, or ranked last below it.
MultiResults ==
    { Result(<<"AI skill", "Computer science concept", "Misc">>, <<80, 15, 5>>),
      Result(<<"Computer science concept", "AI skill", "Misc">>, <<70, 15, 15>>),
      Result(<<"Computer science concept", "Misc", "AI skill">>, <<70, 16, 14>>) }

AllResults == BinaryResults \cup MultiResults

\* Responses that lack the label the caller looks for.
MalformedBinary == { Result(<<"Not AI">>, <<100>>) }
MalformedMulti == { Result(<<"Computer science concept", "Misc">>, <<90, 10>>) }

ClassifierResults(items) ==
    IF items = AI_RELATED_LABELS THEN BinaryResults \cup MalformedBinary
    ELSE IF items = candidate_labels THEN MultiResults \cup MalformedMulti
    ELSE {}

\* A label sequence as Python passes it: a list or a tuple of the items.
Labels(form, items) == [form |-> form, items |-> items]
tuple(labels) == Labels("tuple", labels.items)
list(labels) == Labels("list", labels.items)

\* list.index(label): the position of label, 0 standing for ValueError.
IndexOf(seq, x) ==
    IF \E i \in 1..Len(seq) : seq[i] = x
    THEN CHOOSE i \in 1..Len(seq) : seq[i] = x /\ \A j \in 1..(i - 1) : seq[j] # x
    ELSE 0

VARIABLES
    cache,      \* the lru_cache of _cached_zero_shot: entries, least recently used first
    oracle,     \* the classifier's answers revealed so far: <<text, items>> -> result
    inferences, \* ghost: underlying classifier calls made by the last operation
    recency,    \* ghost: every key ever requested, least recently requested first
    hist        \* ghost: the last two cached_zero_shot calls

cacheVars == <<cache, oracle, inferences>>
seqVars == <<recency, hist>>

(***************************************************************************)
(* The memoizing wrapper (src/ai_classifiers.py lines 106-115)             *)
(***************************************************************************)
CacheKeys(c) == {c[i].key : i \in 1..Len(c)}

CacheIndex(c, key) == CHOOSE i \in 1..Len(c) : c[i].key = key

\* A faulty lookup: the most recently used value, whatever the key.
CacheGetNewest(c, key) == c[Len(c)].val

\* A hit returns the value stored under the key.
CacheGet(c, key) == c[CacheIndex(c, key)].val

\* A hit makes the entry the most recently used one.
Touch(c, key) ==
    LET i == CacheIndex(c, key)
    IN  SubSeq(c, 1, i - 1) \o SubSeq(c, i + 1, Len(c)) \o <<c[i]>>

\* A faulty insertion: a full cache drops its most recently used entry.
InsertEvictNewest(c, key, val) ==
    IF Len(c) >= maxsize
    THEN Append(SubSeq(c, 1, Len(c) - 1), [key |-> key, val |-> val])
    ELSE Append(c, [key |-> key, val |-> val])

\* A faulty insertion: an entry is dropped before the cache is full.
InsertEvictEarly(c, key, val) ==
    IF Len(c) >= maxsize - 1 /\ c # <<>>
    THEN Append(Tail(c), [key |-> key, val |-> val])
    ELSE Append(c, [key |-> key, val |-> val])

\* A miss stores the result, evicting the least recently used entry of a
\* full cache.
Insert(c, key, val) ==
    IF Len(c) >= maxsize
    THEN Append(Tail(c), [key |-> key, val |-> val])
    ELSE Append(c, [key |-> key, val |-> val])

\* A faulty key: the labels as passed, without the conversion to a tuple.
CacheKeyAsGiven(text, labels) == <<text, labels>>

\* cached_zero_shot: the key is the text with the labels converted to a tuple.
CacheKey(text, labels) == <<text, tuple(labels)>>

\* classifier(text, labels): the deterministic model's answer for the text
\* and the label items, chosen when first asked and the same ever after.
Classify(text, labels, res) ==
    LET q == <<text, labels.items>>
    IN  /\ res \in ClassifierResults(labels.items)
        /\ q \in DOMAIN oracle => res = oracle[q]
        /\ oracle' = IF q \in DOMAIN oracle THEN oracle ELSE (q :> res) @@ oracle

\* cached_zero_shot(text, labels) run to completion by one thread; res is
\* what it returns.
CachedZeroShot(text, labels, res) ==
    LET key == CacheKey(text, labels)
    IN  IF key \in CacheKeys(cache)
        THEN /\ res = CacheGet(cache, key)
             /\ cache' = Touch(cache, key)
             /\ oracle' = oracle
             /\ inferences' = 0
        ELSE /\ Classify(text, list(key[2]), res)
             /\ cache' = Insert(cache, key, res)
             /\ inferences' = 1

(***************************************************************************)
(* Normalisation helpers of the classifier module                          *)
(***************************************************************************)
\* re.sub(r"([a-zA-Z])(\d)", r"\1 \2", .) followed by
\* re.sub(r"(\d)([a-zA-Z])", r"\1 \2", .): a space at every boundary between
\* a letter and a digit.
RECURSIVE InsertSpaces(_)
InsertSpaces(s) ==
    IF Len(s) < 2 THEN s
    ELSE IF \/ (s[1] \in Letters /\ s[2] \in Digits)
            \/ (s[1] \in Digits /\ s[2] \in Letters)
         THEN <<s[1], " ">> \o InsertSpaces(Tail(s))
         ELSE <<s[1]>> \o InsertSpaces(Tail(s))

\* nlp(text): the tokens of the text, a run of letters and digits or one
\* delimiter each.
RECURSIVE Tokens(_, _)
Tokens(s, piece) ==
    LET flush == IF piece = <<>> THEN <<>> ELSE <<piece>>
    IN  IF s = <<>> THEN flush
        ELSE IF Head(s) = " " THEN flush \o Tokens(Tail(s), <<>>)
        ELSE IF Head(s) \in Delims THEN flush \o <<<<Head(s)>>>> \o Tokens(Tail(s), <<>>)
        ELSE Tokens(Tail(s), Append(piece, Head(s)))

Tokenize(s) == Tokens(s, <<>>)

\* token.like_num
like_num(token) == isdigit(token)

\* " ".join(tokens)
RECURSIVE JoinSpace(_)
JoinSpace(tokens) ==
    IF tokens = <<>> THEN <<>>
    ELSE IF Len(tokens) = 1 THEN tokens[1]
    ELSE tokens[1] \o <<" ">> \o JoinSpace(Tail(tokens))

clean_text(text) ==
    LET spaced == InsertSpaces(text)
        doc == Tokenize(spaced)
    IN  IF 2 * Cardinality({i \in 1..Len(doc) : like_num(doc[i])}) > Len(doc)
        THEN <<>>
        ELSE strip(spaced)

\* p in kept
\* A faulty containment test: p at the start of kept only.
IsPrefix(p, kept) == Len(p) <= Len(kept) /\ SubSeq(kept, 1, Len(p)) = p

\* p in kept
IsSubstring(p, kept) ==
    \E i \in 1..(Len(kept) - Len(p) + 1) : SubSeq(kept, i, i + Len(p) - 1) = p

RECURSIVE KeepNotContained(_, _)
KeepNotContained(sorted, final) ==
    IF sorted = <<>> THEN final
    ELSE IF \E k \in 1..Len(final) : IsSubstring(Head(sorted), final[k])
         THEN KeepNotContained(Tail(sorted), final)
         ELSE KeepNotContained(Tail(sorted), Append(final, Head(sorted)))

SeqRange(seq) == {seq[i] : i \in 1..Len(seq)}

\* sorted(set(phrases), key=len, reverse=True): the orders Python may give,
\* phrases of equal length in the set's iteration order.
SortedOrders(phrases) ==
    LET S == SeqRange(phrases)
    IN  { o \in [1..Cardinality(S) -> S] :
            /\ \A i, j \in 1..Cardinality(S) : o[i] = o[j] => i = j
            /\ \A i \in 1..(Cardinality(S) - 1) : Len(o[i]) >= Len(o[i + 1]) }

\* remove_substring_phrases(phrases), for one of the sort's orders.
remove_substring_phrases(sorted) == KeepNotContained(sorted, <<>>)

(***************************************************************************)
(* The two classification stages and the cascade's decision                *)
(***************************************************************************)
\* A faulty score: the score of the top-ranked label.
AiScoreTop(result) == result.scores[1]

\* classify_ai, after the call: the score of "Artificial Intelligence", 0
\* when the label is missing.
AiScore(result) ==
    LET ai_idx == IndexOf(result.labels, "Artificial Intelligence")
    IN  IF ai_idx = 0 THEN 0 ELSE result.scores[ai_idx]

\* The check its docstring describes: "AI skill" is the top label.
SecondCheckTopLabel(result, min_score) == result.labels[1] = "AI skill"

\* A faulty check: the score must exceed min_score.
SecondCheckStrict(result, min_score) ==
    LET ai_idx == IndexOf(result.labels, "AI skill")
    IN  ai_idx # 0 /\ result.scores[ai_idx] > min_score

\* second_classification_check, after the call.
SecondCheck(result, min_score) ==
    LET ai_idx == IndexOf(result.labels, "AI skill")
    IN  ai_idx # 0 /\ result.scores[ai_idx] >= min_score

\* A cascade without the override.
CascadeStepNoOverride(p_ai_, is_ai_) ==
    IF ~is_ai_ THEN "reject" ELSE "stage2"

\* A cascade whose override needs a score above 0.99.
CascadeStepOverrideStrict(p_ai_, is_ai_) ==
    IF p_ai_ > OVERRIDE_HIGH_CONFIDENCE THEN "accept"
    ELSE IF ~is_ai_ THEN "reject"
    ELSE "stage2"

\* A cascade that sends a failed stage 1 on to stage 2.
CascadeStepIgnoreStage1(p_ai_, is_ai_) ==
    IF p_ai_ >= OVERRIDE_HIGH_CONFIDENCE THEN "accept" ELSE "stage2"

\* What follows stage 1 in each of the four loops: the override, the
\* stage-1 verdict, else stage 2.
CascadeStep(p_ai_, is_ai_) ==
    IF p_ai_ >= OVERRIDE_HIGH_CONFIDENCE THEN "accept"
    ELSE IF ~is_ai_ THEN "reject"
    ELSE "stage2"

(***************************************************************************)
(* External capabilities of the cascade                                    *)
(***************************************************************************)
\* The detector is consulted only for texts of three tokens or more.
DetectFor(text) == IF Len(split(text)) < 3 THEN {"en"} ELSE DetectorAnswers

\* split_into_sentences(text): the trimmed, non-empty sentences of a
\* segmentation of the text, here the whole text or a cut at a token boundary.
Segmentations(text) ==
    LET cuts == { i \in 1..(Len(text) - 1) :
                    text[i] \in Delims \cup {" "} \/ text[i + 1] \in Delims \cup {" "} }
        pieces == {<<text>>} \cup
                  { <<SubSeq(text, 1, i), SubSeq(text, i + 1, Len(text))>> : i \in cuts }
    IN  { SelectSeq(MapStrip(ps), NonEmpty) : ps \in pieces }

\* The words of a text as the keyphrase extractor sees them.
Words(text) == SelectSeq(Tokenize(text), LAMBDA t : t[1] \notin Delims)

\* The word n-grams (1 to 4 words) of a text.
Candidates(text) ==
    LET w == Words(text)
    IN  { JoinSpace(SubSeq(w, i, j)) : i \in 1..Len(w), j \in 1..Len(w) } \ {<<>>}

\* kw_model.extract_keywords(text, top_n, ...): some distinct candidates, in
\* the extractor's order.
KeyphraseLists(text) ==
    { ps \in UNION {[1..k -> Candidates(text)] : k \in 0..MaxPhrases} :
        \A i, j \in 1..Len(ps) : ps[i] = ps[j] => i = j }

(***************************************************************************)
(* Spec: one call of filter_ai_interests, filter_ai_paragraphs or          *)
(* filter_ai_publications on a short input list, or one direct call of    *)
(* classify_ai, second_classification_check or extract_key_phrases, from a *)
(* cold cache                                                              *)
(***************************************************************************)
VARIABLES
    pc,          \* where the call stands
    mode,        \* "interests", "paragraphs" or "publications"
    threshold,   \* the caller's stage-1 threshold
    inputs,      \* the input list: interests, paragraphs or publications' titles
    rest,        \* the elements of the input list still to visit
    item,        \* the interest, the paragraph or the publication's title
    sents,       \* sentences still to visit
    sent,        \* intr_clean, or the sentence whose chunks are evaluated
    chunks,      \* chunks still to visit
    passed,      \* passed / sentence_passed
    frag,        \* the chunk or phrase being evaluated
    frag_lang,   \* ghost: what the language detector answers for frag
    ctx,         \* "chunk" (a filter loop) or "phrase" (refine_phrases)
    p_ai,        \* classify_ai's confidence for frag
    is_ai,       \* classify_ai's verdict for frag
    verdict,     \* ghost: "none", "accepted" or "rejected" for frag
    calls,       \* ghost: the stages whose classifier call was made for frag
    lastCall,    \* ghost: the last cached_zero_shot call and what it returned
    phrases,     \* raw keyphrases still to refine
    refined,     \* refine_phrases' refined list
    skills,      \* what extract_key_phrases returned
    sent_skills, \* filter_ai_publications' sent_skills
    out,         \* the list the entry point returns
    fn,          \* a direct call of classify_ai, second_classification_check or
                 \* extract_key_phrases: its name, arguments and return value
    kw_calls,    \* ghost: the texts passed to kw_model.extract_keywords so far
    exams,       \* ghost: the sentences the sentence loop has tested, each with
                 \* the position of the input element and the language
                 \* detector's answer for it
    extractions  \* ghost: what extract_key_phrases returned to the filter, call
                 \* by call, with the position of the input element

inputVars == <<mode, threshold, inputs>>
loopVars == <<rest, item, sents, sent, chunks, passed>>
fragVars == <<frag, frag_lang, ctx, p_ai, is_ai, verdict, calls>>
phraseVars == <<phrases, refined, skills>>
outVars == <<sent_skills, out>>
directVars == <<fn, kw_calls>>
logVars == <<exams, extractions>>
cascadeVars ==
    <<pc, inputVars, loopVars, fragVars, phraseVars, outVars, lastCall, directVars, logVars>>

Modes == {"interests", "paragraphs", "publications"}

\* The thresholds of the call sites (0.60, 0.75) and one above the override.
Thresholds == {AI_RELATED_THRESHOLD, 75, 100}

\* A text of three tokens, the shortest the language detector is asked about.
LongText == <<"a", " ", "a", " ", "a">>

\* A year, and a title with a year split out by a delimiter.
YearText == <<"1", "1", "1", "1">>
YearTitle == <<"a", ";", "1", "1", "1", "1">>

\* Two words of which neither contains the other.
TwoTopicText == <<"a", " ", "b">>

InputTexts == TextsUpTo(MaxTextLen) \cup {LongText, YearText, YearTitle, TwoTopicText}

\* The elements of the two-element input lists.
PairTexts == {<<"a">>, <<"1">>, <<" ">>}

\* The input lists of the filters: empty, one element, or two.
InputLists ==
    {<<>>} \cup {<<x>> : x \in InputTexts} \cup {<<x, y>> : x \in PairTexts, y \in PairTexts}

NoCall == [text |-> <<>>, items |-> <<>>, ret |-> Result(<<>>, <<>>)]

\* No function was called directly: the run is one of a filter.
NoFn == [name |-> "none", text |-> <<>>, arg |-> <<>>, ret |-> <<>>]

(***************************************************************************)
(* Several threads inside cached_zero_shot (SpecConc)                      *)
(***************************************************************************)
VARIABLES
    wpc,   \* per worker: "idle", "calling", "inserting" or "returned"
    wreq,  \* per worker: the text and labels of its call
    wres,  \* per worker: what the classifier handed it
    wret   \* per worker: what cached_zero_shot returned to it

concVars == <<wpc, wreq, wres, wret>>

(***************************************************************************)
(* State of the scrapers: run_leeds_scraper and run_scholar_scraper over   *)
(* the lecturers collection                                                *)
(***************************************************************************)
VARIABLES
    db,                     \* the lecturers collection: profile -> document
    scraper,                \* the scraper that runs: "leeds", "scholar" or "none"
    force_update,           \* the run's force_update argument
    stop_event,             \* the run's stop event is set
    rpc,                    \* where the run stands
    current_page_url,       \* index discovery: the page to fetch next
    processed_index_pages,  \* index discovery: the pages fetched
    all_profile_urls,       \* index discovery: the profiles found
    todo,                   \* the records the loop has still to visit
    record,                 \* the record being processed
    combined_skills,        \* combine_all_ai_skills' result for the record
    exc,                    \* an exception of the classifier is in flight
    report_written,         \* write_delta_report was called in this run
    fetch_log,              \* ghost: the index pages fetched by the discovery, in order
    stored,                 \* ghost: the records written in this run
    at_stop                 \* ghost: the record in progress when the stop event was set

runVars ==
    <<scraper, force_update, stop_event, rpc, current_page_url, processed_index_pages,
      all_profile_urls, todo, record, combined_skills, exc, report_written>>
scraperVars == <<db, runVars, fetch_log, stored, at_stop>>

IndexPages == 1..NumPages
Profiles == 1..NumProfiles
\* No URL: find_next_page_url's None.
NoPage == 0
\* No record.
NoRecord == 0
\* No document under a profileUrl.
NoDoc == [ai_skills |-> <<>>, is_ai_lecturer |-> FALSE, scholar_processed |-> FALSE,
          exists |-> FALSE]

InitRun ==
    /\ db = [p \in Profiles |-> NoDoc]
    /\ scraper = "none"
    /\ force_update = FALSE
    /\ stop_event = FALSE
    /\ rpc = "idle"
    /\ current_page_url = NoPage
    /\ processed_index_pages = {}
    /\ all_profile_urls = {}
    /\ todo = {}
    /\ record = NoRecord
    /\ combined_skills = <<>>
    /\ exc = FALSE
    /\ report_written = FALSE
    /\ fetch_log = <<>>
    /\ stored = {}
    /\ at_stop = NoRecord

Workers == 1..NumWorkers

NoRequest == [text |-> <<>>, labels |-> Labels("tuple", <<>>)]

InitConc ==
    /\ wpc = [w \in Workers |-> "idle"]
    /\ wreq = [w \in Workers |-> NoRequest]
    /\ wres = [w \in Workers |-> Result(<<>>, <<>>)]
    /\ wret = [w \in Workers |-> Result(<<>>, <<>>)]

InitCache ==
    /\ cache = <<>>
    /\ oracle = <<>>
    /\ inferences = 0
    /\ recency = <<>>
    /\ hist = <<>>

InitCascade ==
    /\ pc = "idle"
    /\ mode = "interests"
    /\ threshold = AI_RELATED_THRESHOLD
    /\ inputs = <<>>
    /\ rest = <<>>
    /\ item = <<>>
    /\ sents = <<>>
    /\ sent = <<>>
    /\ chunks = <<>>
    /\ passed = FALSE
    /\ frag = <<>>
    /\ frag_lang = "en"
    /\ ctx = "chunk"
    /\ p_ai = 0
    /\ is_ai = FALSE
    /\ verdict = "none"
    /\ calls = <<>>
    /\ lastCall = NoCall
    /\ phrases = <<>>
    /\ refined = <<>>
    /\ skills = <<>>
    /\ sent_skills = <<>>
    /\ out = <<>>
    /\ fn = NoFn
    /\ kw_calls = <<>>
    /\ exams = <<>>
    /\ extractions = <<>>

\* The variables of the other specifications, untouched by the cascade.
offVars == <<seqVars, concVars, scraperVars>>

\* The caller: an entry point, a threshold and an input list.
Begin(m, t, xs) ==
    /\ mode' = m
    /\ threshold' = t
    /\ inputs' = xs
    /\ rest' = xs
    /\ pc' = "item"
    /\ UNCHANGED <<offVars, logVars, directVars, cacheVars, item, sents, sent, chunks, passed, fragVars,
                   phraseVars, outVars, lastCall>>

\* filter_ai_interests: the head of the loop over the interests.
InterestItem ==
    /\ pc = "item"
    /\ mode = "interests"
    /\ IF rest = <<>>
       THEN /\ pc' = "done"
            /\ UNCHANGED <<rest, item, sent, chunks, passed>>
       ELSE /\ item' = Head(rest)
            /\ rest' = Tail(rest)
            /\ LET intr_clean == strip(Head(rest))
               IN  IF intr_clean = <<>>
                   THEN /\ pc' = "item"
                        /\ UNCHANGED <<sent, chunks, passed>>
                   ELSE /\ sent' = intr_clean
                        /\ passed' = FALSE
                        /\ chunks' = split_chunks(intr_clean)
                        /\ pc' = "chunk_loop"
    /\ UNCHANGED <<offVars, logVars, directVars, cacheVars, inputVars, sents, fragVars, phraseVars,
                   outVars, lastCall>>

\* filter_ai_paragraphs: the head of the loop over the paragraphs.
ParagraphItem ==
    /\ pc = "item"
    /\ mode = "paragraphs"
    /\ IF rest = <<>>
       THEN /\ pc' = "done"
            /\ UNCHANGED <<rest, item, sents>>
       ELSE /\ item' = Head(rest)
            /\ rest' = Tail(rest)
            /\ \E seg \in Segmentations(Head(rest)) : sents' = seg
            /\ pc' = "sent_loop"
    /\ UNCHANGED <<offVars, logVars, directVars, cacheVars, inputVars, sent, chunks, passed, fragVars,
                   phraseVars, outVars, lastCall>>

\* filter_ai_publications: the head of the loop over the publications.
PublicationItem ==
    /\ pc = "item"
    /\ mode = "publications"
    /\ IF rest = <<>>
       THEN /\ pc' = "done"
            /\ UNCHANGED <<rest, item, sents, sent_skills>>
       ELSE /\ item' = Head(rest)
            /\ rest' = Tail(rest)
            /\ LET title == strip(Head(rest))
               IN  IF title = <<>>
                   THEN /\ pc' = "item"
                        /\ UNCHANGED <<sents, sent_skills>>
                   ELSE /\ sent_skills' = <<>>
                        /\ \E seg \in Segmentations(title) : sents' = seg
                        /\ pc' = "sent_loop"
    /\ UNCHANGED <<offVars, logVars, directVars, cacheVars, inputVars, sent, chunks, passed, fragVars,
                   phraseVars, out, lastCall>>

\* The head of the loop over the sentences of a paragraph or a title.
NextSentence ==
    /\ pc = "sent_loop"
    /\ IF sents = <<>>
       THEN /\ pc' = IF mode = "publications" THEN "finish_pub" ELSE "item"
            /\ UNCHANGED <<sents, sent, chunks, passed, exams>>
       ELSE \E detected \in DetectFor(Head(sents)) :
              /\ sents' = Tail(sents)
              /\ exams' = Append(exams, [idx |-> Len(inputs) - Len(rest), text |-> Head(sents),
                                       lang |-> detected])
              /\ IF is_year_or_numeric(Head(sents)) \/ ~is_english(Head(sents), detected)
                 THEN /\ pc' = "sent_loop"
                      /\ UNCHANGED <<sent, chunks, passed>>
                 ELSE /\ sent' = Head(sents)
                      /\ passed' = FALSE
                      /\ chunks' = split_chunks(Head(sents))
                      /\ pc' = "chunk_loop"
    /\ UNCHANGED <<offVars, extractions, directVars, cacheVars, inputVars, rest, item, fragVars,
                   phraseVars, outVars, lastCall>>

\* The head of the loop over the chunks; with no chunk left the interest or
\* sentence has not passed.
NextChunk ==
    /\ pc = "chunk_loop"
    /\ IF chunks = <<>>
       THEN /\ pc' = IF mode = "interests" THEN "item" ELSE "sent_loop"
            /\ UNCHANGED <<chunks, fragVars>>
       ELSE /\ frag' = Head(chunks)
            /\ \E detected \in DetectFor(Head(chunks)) : frag_lang' = detected
            /\ chunks' = Tail(chunks)
            /\ ctx' = "chunk"
            /\ p_ai' = 0
            /\ is_ai' = FALSE
            /\ verdict' = "none"
            /\ calls' = <<>>
            /\ pc' = "stage1"
    /\ UNCHANGED <<offVars, logVars, directVars, cacheVars, inputVars, rest, item, sents, sent, passed,
                   phraseVars, outVars, lastCall>>

\* The stage-1 threshold in force: the caller's in the filter loops,
\* refine_phrases' default when extract_key_phrases refines the phrases.
StageThreshold == IF ctx = "chunk" THEN threshold ELSE AI_RELATED_THRESHOLD

\* The fragment is accepted: the chunk loop breaks with passed set, the
\* phrase loop appends the phrase.
Accept ==
    /\ verdict' = "accepted"
    /\ IF ctx = "chunk"
       THEN /\ passed' = TRUE
            /\ pc' = "extract"
            /\ UNCHANGED refined
       ELSE /\ refined' = Append(refined, frag)
            /\ pc' = "refine_loop"
            /\ UNCHANGED passed

\* The fragment is rejected: the loop continues.
Reject ==
    /\ verdict' = "rejected"
    /\ pc' = IF ctx = "chunk" THEN "chunk_loop" ELSE "refine_loop"
    /\ UNCHANGED <<passed, refined>>

AfterStage1(p, isai) ==
    /\ p_ai' = p
    /\ is_ai' = isai
    /\ LET step == CascadeStep(p, isai)
       IN  CASE step = "accept" -> Accept
             [] step = "reject" -> Reject
             [] OTHER -> /\ pc' = "stage2"
                         /\ verdict' = "none"
                         /\ UNCHANGED <<passed, refined>>

\* classify_ai(frag, threshold) and the branch on its result.
Stage1 ==
    /\ pc = "stage1"
    /\ IF strip(frag) = <<>>
       THEN /\ AfterStage1(0, FALSE)
            /\ UNCHANGED <<cacheVars, calls, lastCall>>
       ELSE \E res \in AllResults :
              /\ CachedZeroShot(frag, Labels("tuple", AI_RELATED_LABELS), res)
              /\ lastCall' = [text |-> frag, items |-> AI_RELATED_LABELS, ret |-> res]
              /\ calls' = Append(calls, 1)
              /\ AfterStage1(AiScore(res), AiScore(res) >= StageThreshold)
    /\ UNCHANGED <<offVars, logVars, directVars, inputVars, rest, item, sents, sent, chunks, frag, frag_lang,
                   ctx, phrases, skills, outVars>>

\* second_classification_check(frag, min_score=AI_SKILL_MIN_CONFIDENCE) and
\* the branch on its result.
Stage2 ==
    /\ pc = "stage2"
    /\ IF strip(frag) = <<>>
       THEN /\ Reject
            /\ UNCHANGED <<cacheVars, calls, lastCall>>
       ELSE \E res \in AllResults :
              /\ CachedZeroShot(frag, tuple(Labels("list", candidate_labels)), res)
              /\ lastCall' = [text |-> frag, items |-> candidate_labels, ret |-> res]
              /\ calls' = Append(calls, 2)
              /\ IF SecondCheck(res, AI_SKILL_MIN_CONFIDENCE) THEN Accept ELSE Reject
    /\ UNCHANGED <<offVars, logVars, directVars, inputVars, rest, item, sents, sent, chunks, frag, frag_lang,
                   ctx, p_ai, is_ai, phrases, skills, outVars>>

\* extract_key_phrases(sent): the extractor's raw phrases, handed to
\* refine_phrases.
Extract ==
    /\ pc = "extract"
    /\ IF strip(sent) = <<>>
       THEN /\ skills' = <<>>
            /\ pc' = "emit"
            /\ UNCHANGED <<phrases, refined, kw_calls>>
       ELSE /\ \E raw \in KeyphraseLists(sent) : phrases' = raw
            /\ kw_calls' = Append(kw_calls, sent)
            /\ refined' = <<>>
            /\ pc' = "refine_loop"
            /\ UNCHANGED skills
    /\ UNCHANGED <<offVars, logVars, fn, cacheVars, inputVars, loopVars, fragVars, outVars, lastCall>>

\* refine_phrases: the head of the loop over the raw phrases, and the
\* return through remove_substring_phrases.
NextPhrase ==
    /\ pc = "refine_loop"
    /\ IF phrases = <<>>
       THEN /\ \E sorted \in SortedOrders(refined) :
                 skills' = remove_substring_phrases(sorted)
            /\ pc' = "emit"
            /\ UNCHANGED <<phrases, fragVars>>
       ELSE LET ph == strip(JoinSpace(Tokenize(clean_text(Head(phrases)))))
            IN  \E detected \in DetectFor(ph) :
                  /\ phrases' = Tail(phrases)
                  /\ IF clean_text(Head(phrases)) = <<>> \/ ph = <<>>
                        \/ ~is_english(ph, detected)
                     THEN /\ pc' = "refine_loop"
                          /\ UNCHANGED fragVars
                     ELSE /\ frag' = ph
                          /\ frag_lang' = detected
                          /\ ctx' = "phrase"
                          /\ p_ai' = 0
                          /\ is_ai' = FALSE
                          /\ verdict' = "none"
                          /\ calls' = <<>>
                          /\ pc' = "stage1"
                  /\ UNCHANGED skills
    /\ UNCHANGED <<offVars, logVars, directVars, cacheVars, inputVars, loopVars, refined, outVars, lastCall>>

\* A faulty append: the entry goes to the front of the list.
prepend_entry(entries, text, skills_) == <<[text |-> text, skills |-> skills_]>> \o entries

\* ai_interests.append({...}), ai_sentences.append({...}), ai_pubs.append(pub):
\* the entry goes to the end of the output list.
append_entry(entries, text, skills_) == Append(entries, [text |-> text, skills |-> skills_])

\* A faulty fallback: the extracted list, even when it is empty.
skills_without_fallback(skills_, intr_clean) == skills_

\* extract_key_phrases(intr_clean) or [intr_clean]
skills_or_text(skills_, intr_clean) == IF skills_ = <<>> THEN <<intr_clean>> ELSE skills_

\* A faulty test: every passed sentence is kept.
keep_any_sentence(skills_) == TRUE

\* filter_ai_paragraphs: "if not skills: continue".
keep_sentence(skills_) == skills_ # <<>>

\* What each entry point does with the skills of a passed interest or
\* sentence.
Emit ==
    /\ pc = "emit"
    /\ mode \in Modes
    /\ extractions' = Append(extractions, [idx |-> Len(inputs) - Len(rest), text |-> sent,
                                           skills |-> skills])
    /\ CASE mode = "interests" ->
              /\ out' = append_entry(out, sent, skills_or_text(skills, sent))
              /\ pc' = "item"
              /\ UNCHANGED sent_skills
         [] mode = "paragraphs" ->
              /\ out' = IF keep_sentence(skills) THEN append_entry(out, sent, skills) ELSE out
              /\ pc' = "sent_loop"
              /\ UNCHANGED sent_skills
         [] OTHER ->
              /\ sent_skills' = sent_skills \o skills
              /\ pc' = "sent_loop"
              /\ UNCHANGED out
    /\ UNCHANGED <<offVars, exams, directVars, cacheVars, inputVars, loopVars, fragVars,
                   phraseVars, lastCall>>

\* A faulty list(set(.)): the list as it is, duplicates kept.
ListOrder(seq) == {seq}

\* list(set(seq)): the distinct elements of seq, in any order.
SetOrders(seq) ==
    LET S == SeqRange(seq)
    IN  { o \in [1..Cardinality(S) -> S] : \A i, j \in 1..Cardinality(S) : o[i] = o[j] => i = j }

\* filter_ai_publications: a publication with skills is returned with them,
\* list(set(sent_skills)) in one of its orders.
FinishPublication ==
    /\ pc = "finish_pub"
    /\ IF sent_skills = <<>>
       THEN out' = out
       ELSE \E order \in SetOrders(sent_skills) :
              out' = append_entry(out, item, order)
    /\ pc' = "item"
    /\ UNCHANGED <<offVars, logVars, directVars, cacheVars, inputVars, loopVars, fragVars, phraseVars, sent_skills,
                   lastCall>>

(***************************************************************************)
(* The functions of the cascade called directly, from a cold cache         *)
(***************************************************************************)
\* The classifier's answers to a direct call, well-formed or not.
DirectResults == AllResults \cup MalformedBinary \cup MalformedMulti

\* An optional argument: <<>> when the caller passes none, <<v>> otherwise.
ThresholdArgs == {<<>>, <<0>>, <<AI_RELATED_THRESHOLD>>, <<75>>, <<100>>}
MinScoreArgs == {<<>>, <<0>>, <<AI_SKILL_MIN_CONFIDENCE>>, <<16>>}

ArgOr(arg, default) == IF arg = <<>> THEN default ELSE arg[1]

\* classify_ai(text) or classify_ai(text, threshold=t).
DirectClassifyAi(text, t) ==
    /\ IF strip(text) = <<>>
       THEN /\ fn' = [name |-> "classify_ai", text |-> text, arg |-> t,
                      ret |-> [is_ai |-> FALSE, ai_score |-> 0]]
            /\ UNCHANGED <<cacheVars, lastCall>>
       ELSE \E res \in DirectResults :
              /\ CachedZeroShot(text, Labels("tuple", AI_RELATED_LABELS), res)
              /\ lastCall' = [text |-> text, items |-> AI_RELATED_LABELS, ret |-> res]
              /\ fn' = [name |-> "classify_ai", text |-> text, arg |-> t,
                        ret |-> [is_ai |-> AiScore(res) >= ArgOr(t, AI_RELATED_THRESHOLD),
                                 ai_score |-> AiScore(res)]]
    /\ mode' = "classify_ai"
    /\ pc' = "done"
    /\ UNCHANGED <<offVars, logVars, threshold, inputs, loopVars, fragVars, phraseVars, outVars, kw_calls>>

\* second_classification_check(phrase) or
\* second_classification_check(phrase, min_score=m).
DirectSecondCheck(phrase, m) ==
    /\ IF strip(phrase) = <<>>
       THEN /\ fn' = [name |-> "second_classification_check", text |-> phrase, arg |-> m,
                      ret |-> FALSE]
            /\ UNCHANGED <<cacheVars, lastCall>>
       ELSE \E res \in DirectResults :
              /\ CachedZeroShot(phrase, tuple(Labels("list", candidate_labels)), res)
              /\ lastCall' = [text |-> phrase, items |-> candidate_labels, ret |-> res]
              /\ fn' = [name |-> "second_classification_check", text |-> phrase, arg |-> m,
                        ret |-> SecondCheck(res, ArgOr(m, AI_SKILL_MIN_CONFIDENCE))]
    /\ mode' = "second_classification_check"
    /\ pc' = "done"
    /\ UNCHANGED <<offVars, logVars, threshold, inputs, loopVars, fragVars, phraseVars, outVars, kw_calls>>

\* extract_key_phrases(text): entered here, run by Extract and the phrase
\* loop, left by ReturnSkills.
DirectExtract(text) ==
    /\ fn' = [name |-> "extract_key_phrases", text |-> text, arg |-> <<>>, ret |-> <<>>]
    /\ mode' = "extract_key_phrases"
    /\ sent' = text
    /\ pc' = "extract"
    /\ UNCHANGED <<offVars, logVars, cacheVars, threshold, inputs, rest, item, sents, chunks, passed,
                   fragVars, phraseVars, outVars, lastCall, kw_calls>>

\* extract_key_phrases returns to its direct caller.
ReturnSkills ==
    /\ pc = "emit"
    /\ mode = "extract_key_phrases"
    /\ fn' = [fn EXCEPT !.ret = skills]
    /\ pc' = "done"
    /\ UNCHANGED <<offVars, logVars, cacheVars, inputVars, loopVars, fragVars, phraseVars, outVars,
                   lastCall, kw_calls>>

\* The phrases of the direct calls of remove_substring_phrases: the empty
\* string, two words, and the two phrases made of both.
PhraseTexts == {<<>>, <<"a">>, <<"b">>, <<"a", " ", "b">>, <<"b", " ", "a">>}
PhraseLists == UNION {[1..k -> PhraseTexts] : k \in 0..MaxList}

\* remove_substring_phrases(phrases)
DirectRemoveSubstrings(ps) ==
    /\ \E sorted \in SortedOrders(ps) :
          fn' = [name |-> "remove_substring_phrases", text |-> <<>>, arg |-> ps,
                 ret |-> remove_substring_phrases(sorted)]
    /\ mode' = "remove_substring_phrases"
    /\ pc' = "done"
    /\ UNCHANGED <<offVars, logVars, cacheVars, threshold, inputs, loopVars, fragVars, phraseVars,
                   outVars, lastCall, kw_calls>>

StartRemoveSubstrings ==
    /\ pc = "idle"
    /\ \E ps \in PhraseLists : DirectRemoveSubstrings(ps)

\* is_english(text): the call record keeps in arg the detector's answer when
\* detect(text) was reached, and nothing when the function returned before it.
DirectIsEnglish(text) ==
    /\ \E detected \in DetectFor(text) :
          fn' = [name |-> "is_english", text |-> text,
                 arg |-> IF text = <<>> \/ Len(split(text)) < 3 THEN <<>> ELSE <<detected>>,
                 ret |-> is_english(text, detected)]
    /\ mode' = "is_english"
    /\ pc' = "done"
    /\ UNCHANGED <<offVars, logVars, cacheVars, threshold, inputs, loopVars, fragVars, phraseVars,
                   outVars, lastCall, kw_calls>>

StartIsEnglish ==
    /\ pc = "idle"
    /\ \E text \in InputTexts : DirectIsEnglish(text)

\* An argument of combine_all_ai_skills is None, <<>>, or a list, <<items>>;
\* an item is a dict without a "skills" key, <<>>, or with one, <<skills>>.
\* i.get("skills", [])
ItemSkills(i) == IF i = <<>> THEN <<>> ELSE i[1]

\* The skills that the loop over "argument or []" adds to the set, in order.
RECURSIVE SkillsAdded(_)
SkillsAdded(items) ==
    IF items = <<>> THEN <<>> ELSE ItemSkills(Head(items)) \o SkillsAdded(Tail(items))

ArgSkills(arg) == IF arg = <<>> THEN <<>> ELSE SkillsAdded(arg[1])

\* A faulty combination: the publications are left out.
CombinedWithoutPublications(ai_interests, ai_publications, ai_paragraphs) ==
    ArgSkills(ai_interests) \o ArgSkills(ai_paragraphs)

\* All that is added to combined_skills, in the order of the three loops.
Combined(ai_interests, ai_publications, ai_paragraphs) ==
    ArgSkills(ai_interests) \o ArgSkills(ai_publications) \o ArgSkills(ai_paragraphs)

\* combine_all_ai_skills: list(combined_skills), in one of the set's orders.
combine_all_ai_skills(ai_interests, ai_publications, ai_paragraphs) ==
    SetOrders(Combined(ai_interests, ai_publications, ai_paragraphs))

\* The arguments of the direct calls: None, the empty list, one item without
\* skills or with a skills list, and two items.
SkillA == <<"a">>
SkillB == <<"b">>
SkillAB == <<"a", " ", "b">>
SkillLists ==
    {<<>>, <<SkillA>>, <<SkillB>>, <<SkillAB>>, <<SkillA, SkillB>>, <<SkillA, SkillA>>}
ItemWith(sk) == <<sk>>
ItemWithoutSkills == <<>>
ListOf(its) == <<its>>
None == <<>>
CombineItems == {ItemWithoutSkills} \cup {ItemWith(sk) : sk \in SkillLists}
CombineArgs ==
    {None, ListOf(<<>>)} \cup {ListOf(<<i>>) : i \in CombineItems}
        \cup {ListOf(<<ItemWith(<<SkillA>>), ItemWith(<<SkillAB>>)>>),
              ListOf(<<ItemWith(<<SkillB>>), ItemWith(<<SkillAB>>)>>),
              ListOf(<<ItemWith(<<SkillA>>), ItemWithoutSkills>>)}

DirectCombine(ai_interests, ai_publications, ai_paragraphs) ==
    /\ \E ret \in combine_all_ai_skills(ai_interests, ai_publications, ai_paragraphs) :
          fn' = [name |-> "combine_all_ai_skills", text |-> <<>>,
                 arg |-> <<ai_interests, ai_publications, ai_paragraphs>>, ret |-> ret]
    /\ mode' = "combine_all_ai_skills"
    /\ pc' = "done"
    /\ UNCHANGED <<offVars, logVars, cacheVars, threshold, inputs, loopVars, fragVars, phraseVars,
                   outVars, lastCall, kw_calls>>

StartCombine ==
    /\ pc = "idle"
    /\ \E a \in CombineArgs, p \in CombineArgs, pr \in CombineArgs : DirectCombine(a, p, pr)

StartClassifyAi ==
    /\ pc = "idle"
    /\ \E text \in InputTexts, t \in ThresholdArgs : DirectClassifyAi(text, t)

StartSecondCheck ==
    /\ pc = "idle"
    /\ \E phrase \in InputTexts, m \in MinScoreArgs : DirectSecondCheck(phrase, m)

StartExtract ==
    /\ pc = "idle"
    /\ \E text \in InputTexts : DirectExtract(text)

Start ==
    /\ pc = "idle"
    /\ \E m \in Modes, t \in Thresholds, xs \in InputLists : Begin(m, t, xs)

Init == InitCascade /\ InitCache /\ InitConc /\ InitRun

Next ==
    \/ Start
    \/ InterestItem
    \/ ParagraphItem
    \/ PublicationItem
    \/ NextSentence
    \/ NextChunk
    \/ Stage1
    \/ Stage2
    \/ Extract
    \/ NextPhrase
    \/ Emit
    \/ FinishPublication
    \/ StartClassifyAi
    \/ StartSecondCheck
    \/ StartExtract
    \/ ReturnSkills
    \/ StartRemoveSubstrings
    \/ StartIsEnglish
    \/ StartCombine

vars == <<cacheVars, seqVars, cascadeVars, concVars, scraperVars>>

Spec == Init /\ [][Next]_vars


(***************************************************************************)
(* SpecCache: one thread calling cached_zero_shot with any arguments       *)
(***************************************************************************)
CacheTexts == {<<"a">>, <<"1">>}
LabelArgs ==
    {Labels(f, items) : f \in {"list", "tuple"}, items \in {AI_RELATED_LABELS, candidate_labels}}

RemoveFrom(seq, x) == SelectSeq(seq, LAMBDA y : y # x)

Call(text, labels) ==
    \E res \in AllResults :
        /\ CachedZeroShot(text, labels, res)
        /\ recency' = Append(RemoveFrom(recency, <<text, labels.items>>),
                             <<text, labels.items>>)
        /\ hist' = (IF hist = <<>> THEN <<>> ELSE <<hist[Len(hist)]>>)
                   \o <<[text |-> text, items |-> labels.items, form |-> labels.form,
                         ret |-> res, inferences |-> inferences']>>
        /\ UNCHANGED <<cascadeVars, concVars, scraperVars>>

NextCache == \E text \in CacheTexts, labels \in LabelArgs : Call(text, labels)

SpecCache == Init /\ [][NextCache]_vars


(***************************************************************************)
(* SpecConc: lru_cache's wrapper step by step. The lookup and the insertion*)
(* each run under the cache's lock; the wrapped function, the classifier   *)
(* call, runs outside it.                                                  *)
(***************************************************************************)
\* The classifier's answers in this specification: two to each question.
ConcResults ==
    { Result(<<"Artificial Intelligence", "Not AI">>, <<80, 20>>),
      Result(<<"Not AI", "Artificial Intelligence">>, <<60, 40>>),
      Result(<<"AI skill", "Computer science concept", "Misc">>, <<80, 15, 5>>),
      Result(<<"Computer science concept", "Misc", "AI skill">>, <<70, 16, 14>>) }

\* A faulty insertion: the key is stored without looking for it again.
InsertAfterCallNoRecheck(c, key, val) == Insert(c, key, val)

\* After the call: a key another thread stored meanwhile is left as it is.
InsertAfterCall(c, key, val) ==
    IF key \in CacheKeys(c) THEN c ELSE Insert(c, key, val)

\* A worker enters cached_zero_shot: a hit returns at once, a miss goes on
\* to call the classifier.
WLookup(w, text, labels) ==
    /\ wpc[w] = "idle"
    /\ wreq' = [wreq EXCEPT ![w] = [text |-> text, labels |-> labels]]
    /\ LET key == CacheKey(text, labels)
       IN  IF key \in CacheKeys(cache)
           THEN /\ wret' = [wret EXCEPT ![w] = CacheGet(cache, key)]
                /\ cache' = Touch(cache, key)
                /\ wpc' = [wpc EXCEPT ![w] = "returned"]
           ELSE /\ wpc' = [wpc EXCEPT ![w] = "calling"]
                /\ UNCHANGED <<cache, wret>>
    /\ inferences' = 0
    /\ UNCHANGED <<oracle, wres, seqVars, cascadeVars, scraperVars>>

\* _cached_zero_shot's body: classifier(text, list(labels)).
WInfer(w) ==
    /\ wpc[w] = "calling"
    /\ \E res \in ConcResults :
         /\ Classify(wreq[w].text, list(CacheKey(wreq[w].text, wreq[w].labels)[2]), res)
         /\ wres' = [wres EXCEPT ![w] = res]
    /\ wpc' = [wpc EXCEPT ![w] = "inserting"]
    /\ inferences' = 1
    /\ UNCHANGED <<cache, wreq, wret, seqVars, cascadeVars, scraperVars>>

\* The wrapper stores the result and returns it.
WInsert(w) ==
    /\ wpc[w] = "inserting"
    /\ cache' = InsertAfterCall(cache, CacheKey(wreq[w].text, wreq[w].labels), wres[w])
    /\ wret' = [wret EXCEPT ![w] = wres[w]]
    /\ wpc' = [wpc EXCEPT ![w] = "returned"]
    /\ inferences' = 0
    /\ UNCHANGED <<oracle, wreq, wres, seqVars, cascadeVars, scraperVars>>

\* The caller takes the result; the worker is free for its next call.
WReturn(w) ==
    /\ wpc[w] = "returned"
    /\ wpc' = [wpc EXCEPT ![w] = "idle"]
    /\ wreq' = [wreq EXCEPT ![w] = NoRequest]
    /\ wres' = [wres EXCEPT ![w] = Result(<<>>, <<>>)]
    /\ wret' = [wret EXCEPT ![w] = Result(<<>>, <<>>)]
    /\ UNCHANGED <<cacheVars, seqVars, cascadeVars, scraperVars>>

ConcLabelArgs == {Labels("tuple", AI_RELATED_LABELS), Labels("list", candidate_labels)}

NextConc ==
    \E w \in Workers :
        \/ \E text \in CacheTexts, labels \in ConcLabelArgs : WLookup(w, text, labels)
        \/ WInfer(w)
        \/ WInsert(w)
        \/ WReturn(w)

SpecConc == Init /\ [][NextConc]_vars

(***************************************************************************)
(* SpecRun: runs of run_leeds_scraper and run_scholar_scraper, one after   *)
(* the other, over the lecturers collection; the stop event is set by      *)
(* another thread at any moment of a run                                   *)
(***************************************************************************)
\* The variables of the other specifications, untouched by the scrapers.
nonRunVars == <<cacheVars, seqVars, cascadeVars, concVars>>

\* A faulty bool(): true of every list.
bool_always(x) == TRUE

\* bool(x) of a list
bool(x) == x # <<>>

\* The order of the characters in Python's comparison of strings.
CharRank(c) ==
    CASE c = " " -> 1 [] c = "1" -> 2 [] c = ";" -> 3 [] c = "a" -> 4 [] OTHER -> 5

\* p < q for strings
RECURSIVE StrLess(_, _)
StrLess(p, q) ==
    IF q = <<>> THEN FALSE
    ELSE IF p = <<>> THEN TRUE
    ELSE IF Head(p) = Head(q) THEN StrLess(Tail(p), Tail(q))
    ELSE CharRank(Head(p)) < CharRank(Head(q))

\* sorted(S) of a set of strings
sorted_list(S) ==
    CHOOSE o \in [1..Cardinality(S) -> S] :
        \A i, j \in 1..Cardinality(S) : i < j => StrLess(o[i], o[j])

\* find_next_page_url, given the link the page holds (NoPage when it holds
\* none): a link to the page itself is dropped.
find_next_page_url(next_link, page_url) ==
    IF next_link = page_url THEN NoPage ELSE next_link

\* A faulty loop condition: the pages already fetched are not looked at.
continue_while_url(url, processed) == url # NoPage

\* while current_page_url and current_page_url not in processed_index_pages
continue_discovery(url, processed) == url # NoPage /\ url \notin processed

\* A faulty test of the stop event: never true.
never_stop(event) == FALSE

\* if stop_event and stop_event.is_set()
stop_requested(event) == event

\* What a filter returns for a record in a run: nothing, or one entry.
RunOutputs == {ListOf(<<>>), ListOf(<<ItemWith(<<SkillA>>)>>)}

Running == rpc \in {"index", "discovered", "profiles", "scrape", "cascade", "store", "except",
                    "finally"}

\* The locals of a run at its start.
StartRun(name, force) ==
    /\ rpc \in {"idle", "returned", "raised"}
    /\ scraper' = name
    /\ force_update' = force
    /\ \/ stop_event' = FALSE
       \/ stop_event' = stop_event
    /\ processed_index_pages' = {}
    /\ all_profile_urls' = {}
    /\ record' = NoRecord
    /\ combined_skills' = <<>>
    /\ exc' = FALSE
    /\ report_written' = FALSE
    /\ fetch_log' = <<>>
    /\ stored' = {}
    /\ at_stop' = NoRecord
    /\ UNCHANGED <<db, nonRunVars>>

\* run_leeds_scraper(chosen_school, force_update, stop_event)
RunLeeds(force) ==
    /\ StartRun("leeds", force)
    /\ current_page_url' = 1  \* staff_url, the first page of the school's staff list
    /\ todo' = {}
    /\ rpc' = "index"

\* run_scholar_scraper(chosen_school, force_update, stop_event): the records
\* of the school are read into a list first.
RunScholar(force) ==
    /\ StartRun("scholar", force)
    /\ current_page_url' = NoPage
    /\ todo' = {p \in Profiles : db[p].exists}
    /\ rpc' = "profiles"

\* One turn of the index discovery loop: the page is marked as processed and
\* fetched; a fetch error ends the discovery, otherwise the profile links of
\* the page are collected and its next-page link followed.
IndexPage ==
    /\ rpc = "index"
    /\ IF ~continue_discovery(current_page_url, processed_index_pages) \/ stop_requested(stop_event)
       THEN /\ rpc' = "discovered"
            /\ UNCHANGED <<current_page_url, processed_index_pages, all_profile_urls, fetch_log>>
       ELSE /\ processed_index_pages' = processed_index_pages \cup {current_page_url}
            /\ rpc' = "index"
            /\ \/ /\ fetch_log' = Append(fetch_log, [url |-> current_page_url, ok |-> FALSE])
                  /\ current_page_url' = NoPage
                  /\ UNCHANGED all_profile_urls
               \/ \E links \in SUBSET Profiles, next_link \in IndexPages \cup {NoPage} :
                    /\ fetch_log' = Append(fetch_log, [url |-> current_page_url, ok |-> TRUE])
                    /\ all_profile_urls' = all_profile_urls \cup links
                    /\ current_page_url' = find_next_page_url(next_link, current_page_url)
    /\ UNCHANGED <<db, scraper, force_update, stop_event, todo, record, combined_skills, exc,
                   report_written, stored, at_stop, nonRunVars>>

\* After the discovery: return when no profile was found, else go through
\* the profiles.  current_page_url and processed_index_pages are not read
\* after the loop: their values are dropped here.
Discovered ==
    /\ rpc = "discovered"
    /\ IF all_profile_urls = {}
       THEN /\ rpc' = "finally"
            /\ UNCHANGED todo
       ELSE /\ todo' = all_profile_urls
            /\ rpc' = "profiles"
    /\ fetch_log' = <<>>
    /\ current_page_url' = NoPage
    /\ processed_index_pages' = {}
    /\ UNCHANGED <<db, scraper, force_update, stop_event, all_profile_urls, record,
                   combined_skills, exc, report_written, stored, at_stop, nonRunVars>>

\* The head of the loop over the profile URLs, in the set's order.
LeedsProfile ==
    /\ rpc = "profiles"
    /\ scraper = "leeds"
    /\ IF todo = {} \/ stop_requested(stop_event)
       THEN /\ rpc' = "finally"
            /\ UNCHANGED <<todo, record>>
       ELSE \E url \in todo :
              /\ todo' = todo \ {url}
              /\ IF ~force_update /\ db[url].exists
                 THEN /\ rpc' = "profiles"
                      /\ UNCHANGED record
                 ELSE /\ record' = url
                      /\ rpc' = "scrape"
    /\ UNCHANGED <<db, scraper, force_update, stop_event, current_page_url, processed_index_pages,
                   all_profile_urls, combined_skills, exc, report_written, fetch_log, stored,
                   at_stop, nonRunVars>>

\* The head of the loop over the lecturer records.
ScholarRecord ==
    /\ rpc = "profiles"
    /\ scraper = "scholar"
    /\ IF todo = {} \/ stop_requested(stop_event)
       THEN /\ rpc' = "finally"
            /\ UNCHANGED <<todo, record>>
       ELSE \E rec \in todo, single_word_name \in BOOLEAN :
              /\ todo' = todo \ {rec}
              /\ IF single_word_name \/ (~force_update /\ db[rec].scholar_processed)
                 THEN /\ rpc' = "profiles"
                      /\ UNCHANGED record
                 ELSE /\ record' = rec
                      /\ rpc' = "scrape"
    /\ UNCHANGED <<db, scraper, force_update, stop_event, current_page_url, processed_index_pages,
                   all_profile_urls, combined_skills, exc, report_written, fetch_log, stored,
                   at_stop, nonRunVars>>

\* The page of the record is fetched: scrape_lecturer_page returns None when
\* the response is not ok, process_lecturer_record returns when no profile is
\* found or the request is blocked; otherwise the filters are next.
Scrape ==
    /\ rpc = "scrape"
    /\ \/ /\ rpc' = "profiles"
          /\ record' = NoRecord
       \/ /\ rpc' = "cascade"
          /\ UNCHANGED record
    /\ UNCHANGED <<db, scraper, force_update, stop_event, current_page_url, processed_index_pages,
                   all_profile_urls, todo, combined_skills, exc, report_written, fetch_log,
                   stored, at_stop,
                   nonRunVars>>

\* The filters and combine_all_ai_skills on the texts of the record; the
\* classifier may raise inside a filter.
Cascade ==
    /\ rpc = "cascade"
    /\ \/ /\ exc' = TRUE
          /\ rpc' = "except"
          /\ UNCHANGED combined_skills
       \/ \E first \in RunOutputs, second \in RunOutputs :
            \E ret \in (IF scraper = "leeds"
                        THEN combine_all_ai_skills(first, None, second)
                        ELSE combine_all_ai_skills(first, second, None)) :
              /\ combined_skills' = ret
              /\ rpc' = "store"
              /\ UNCHANGED exc
    /\ UNCHANGED <<db, scraper, force_update, stop_event, current_page_url, processed_index_pages,
                   all_profile_urls, todo, record, report_written, fetch_log, stored,
                   at_stop, nonRunVars>>

\* store_lecturer_in_db: upsert of the scraped document.
LeedsStore ==
    /\ rpc = "store"
    /\ scraper = "leeds"
    /\ db' = [db EXCEPT ![record] =
                 [ai_skills |-> combined_skills,
                  is_ai_lecturer |-> bool(combined_skills),
                  scholar_processed |-> @.scholar_processed,
                  exists |-> TRUE]]
    /\ stored' = stored \cup {record}
    /\ record' = NoRecord
    /\ combined_skills' = <<>>
    /\ rpc' = "profiles"
    /\ UNCHANGED <<scraper, force_update, stop_event, current_page_url, processed_index_pages,
                   all_profile_urls, todo, exc, report_written, fetch_log,
                   at_stop, nonRunVars>>

\* process_lecturer_record: the stored skills are merged with the new ones
\* and the document is updated.
ScholarStore ==
    /\ rpc = "store"
    /\ scraper = "scholar"
    /\ LET old_skills == db[record].ai_skills
           merged_skills == sorted_list(SeqRange(old_skills) \cup SeqRange(combined_skills))
       IN  db' = [db EXCEPT ![record] =
                     [ai_skills |-> merged_skills,
                      is_ai_lecturer |-> bool(merged_skills),
                      scholar_processed |-> TRUE,
                      exists |-> TRUE]]
    /\ stored' = stored \cup {record}
    /\ record' = NoRecord
    /\ combined_skills' = <<>>
    /\ rpc' = "profiles"
    /\ UNCHANGED <<scraper, force_update, stop_event, current_page_url, processed_index_pages,
                   all_profile_urls, todo, exc, report_written, fetch_log,
                   at_stop, nonRunVars>>

\* The exception leaves process_lecturer_record or scrape_lecturer_page:
\* run_scholar_scraper catches it inside the loop, run_leeds_scraper has no
\* handler inside the loop and the exception leaves the loop.
Unwind ==
    /\ rpc = "except"
    /\ IF scraper = "scholar"
       THEN /\ exc' = FALSE
            /\ rpc' = "profiles"
       ELSE /\ rpc' = "finally"
            /\ UNCHANGED exc
    /\ record' = NoRecord
    /\ UNCHANGED <<db, scraper, force_update, stop_event, current_page_url, processed_index_pages,
                   all_profile_urls, todo, combined_skills, report_written, fetch_log,
                   stored, at_stop, nonRunVars>>

\* The finally block: the delta report is written; the run returns, or the
\* exception goes on to the caller.
Finally ==
    /\ rpc = "finally"
    /\ report_written' = TRUE
    /\ rpc' = IF exc THEN "raised" ELSE "returned"
    /\ UNCHANGED <<db, scraper, force_update, stop_event, current_page_url, processed_index_pages,
                   all_profile_urls, todo, record, combined_skills, exc, fetch_log,
                   stored, at_stop, nonRunVars>>

\* Another thread sets the stop event.
SetStop ==
    /\ Running
    /\ ~stop_event
    /\ stop_event' = TRUE
    /\ at_stop' = IF rpc \in {"scrape", "cascade", "store", "except"}
                THEN record
                ELSE NoRecord
    /\ UNCHANGED <<db, scraper, force_update, rpc, current_page_url, processed_index_pages,
                   all_profile_urls, todo, record, combined_skills, exc, report_written,
                   fetch_log, stored, nonRunVars>>

\* The steps of the thread that runs the scraper.
RunStep ==
    \/ IndexPage
    \/ Discovered
    \/ LeedsProfile
    \/ ScholarRecord
    \/ Scrape
    \/ Cascade
    \/ LeedsStore
    \/ ScholarStore
    \/ Unwind
    \/ Finally

NextRun ==
    \/ \E force \in BOOLEAN : RunLeeds(force)
    \/ \E force \in BOOLEAN : RunScholar(force)
    \/ RunStep
    \/ SetStop

SpecRun == Init /\ [][NextRun]_vars

\* The thread of the scraper keeps running.
SpecRunFair == SpecRun /\ WF_vars(RunStep)

(***************************************************************************)
(* Claims about the cache, one thread (SpecCache)                          *)
(***************************************************************************)
SameRequest(a, b) == a.text = b.text /\ a.items = b.items

\* C6: two successive calls of cached_zero_shot with the same text and the
\* same label items, each given as a list or as a tuple, return the same
\* result and cause at most one call of the underlying classifier.
C6_TwiceSameResultOneInference ==
    (Len(hist) = 2 /\ SameRequest(hist[1], hist[2]))
        => /\ hist[2].ret = hist[1].ret
           /\ hist[1].inferences + hist[2].inferences <= 1

\* The first call was a miss with the labels as a list, the second passed
\* the same labels as a tuple.
C6_Witness ==
    /\ Len(hist) = 2
    /\ SameRequest(hist[1], hist[2])
    /\ hist[1].form = "list"
    /\ hist[2].form = "tuple"
    /\ hist[1].inferences = 1

\* The request a cache key stands for.
RequestOf(key) == <<key[1], key[2].items>>

\* The cached key whose last request is the oldest.
LeastRecentlyUsed(c) ==
    CHOOSE k \in CacheKeys(c) :
        \A k2 \in CacheKeys(c) :
            IndexOf(recency, RequestOf(k)) <= IndexOf(recency, RequestOf(k2))

CacheWithinCapacity ==
    /\ Len(cache) <= maxsize
    /\ \A i, j \in 1..Len(cache) : cache[i].key = cache[j].key => i = j
    /\ \A i \in 1..Len(cache) : cache[i].key[2].form = "tuple"

InsertsNewKey == CacheKeys(cache') \ CacheKeys(cache) # {}

EvictsLeastRecentlyUsed ==
    (Len(cache) = maxsize /\ InsertsNewKey)
        => CacheKeys(cache) \ CacheKeys(cache') = {LeastRecentlyUsed(cache)}

\* C8: the cache never holds more than maxsize entries, holds one entry per
\* distinct (text, label tuple) key, and a new key inserted into a full
\* cache evicts the least recently used entry.
C8_BoundedLRU == [](CacheWithinCapacity) /\ [][EvictsLeastRecentlyUsed]_vars

\* A full cache after more distinct keys than its capacity were requested,
\* the last call having inserted a new key.
C8_Witness ==
    /\ Len(cache) = maxsize
    /\ Len(recency) > maxsize
    /\ Len(hist) = 2
    /\ hist[2].inferences = 1

\* C9 as stated: once an entry is in the cache, no later call removes or
\* changes it.
C9_AppendOnly ==
    [][\A i \in 1..Len(cache) : \E j \in 1..Len(cache') : cache'[j] = cache[i]]_vars

\* C9 amended: no call changes the value stored under a cached key, and an
\* entry leaves the cache only when a new key is inserted into a full cache.
C9_StableUntilEvicted ==
    [][\A i \in 1..Len(cache) :
          \/ \E j \in 1..Len(cache') : cache'[j] = cache[i]
          \/ /\ cache[i].key \notin CacheKeys(cache')
             /\ Len(cache) = maxsize
             /\ InsertsNewKey]_vars

\* An entry that was added is no longer cached.
C9_Witness ==
    \E q \in DOMAIN oracle : <<q[1], Labels("tuple", q[2])>> \notin CacheKeys(cache)


(***************************************************************************)
(* Claims about several threads in the cache (SpecConc)                    *)
(***************************************************************************)
\* C10: with several workers inside cached_zero_shot at once, every call
\* returns the classifier's result for its own text and labels, and the
\* cache stays within its capacity with one entry per key.
C10_ConcurrentCallsCorrect ==
    /\ CacheWithinCapacity
    /\ \A w \in Workers :
         wpc[w] = "returned"
            => wret[w] = oracle[<<wreq[w].text, wreq[w].labels.items>>]

\* The race the claim allows: two workers have both called the classifier
\* for the same key and are about to store the result in a full cache.
C10_Witness ==
    \E w1, w2 \in Workers :
        /\ w1 # w2
        /\ wpc[w1] = "inserting"
        /\ wpc[w2] = "inserting"
        /\ wreq[w1] = wreq[w2]
        /\ Len(cache) = maxsize

(***************************************************************************)
(* Claims about the cascade (Spec)                                         *)
(***************************************************************************)
\* The score the classifier's result pairs with a label.
ScoreOf(result, label) ==
    LET i == CHOOSE i \in 1..Len(result.labels) : result.labels[i] = label
    IN  result.scores[i]

\* A stage-1 classifier call has been made for the current fragment.
Stage1Called == calls # <<>>

\* The classifier's "Artificial Intelligence" score for the current fragment.
Stage1Confidence == ScoreOf(oracle[<<frag, AI_RELATED_LABELS>>], "Artificial Intelligence")

\* The classifier returns "AI skill" for the text with a score of 0.15 or more.
AiSkillPasses(text) ==
    LET r == oracle[<<text, candidate_labels>>]
    IN  \E i \in 1..Len(r.labels) :
            r.labels[i] = "AI skill" /\ r.scores[i] >= AI_SKILL_MIN_CONFIDENCE

\* C1: in the chunk loops and in the phrase loop, a text whose stage-1 score
\* is 0.99 or more is accepted, and the stage-2 check is not invoked for it.
C1_OverrideSkipsStage2 ==
    (Stage1Called /\ Stage1Confidence >= OVERRIDE_HIGH_CONFIDENCE)
        => (verdict = "accepted" /\ calls = <<1>> /\ pc # "stage2")

\* A keyphrase accepted by the override under refine_phrases.
C1_Witness ==
    /\ ctx = "phrase"
    /\ Stage1Called
    /\ Stage1Confidence >= OVERRIDE_HIGH_CONFIDENCE
    /\ verdict = "accepted"
    /\ frag \in SeqRange(refined)

\* C2 as stated: a chunk whose stage-1 confidence is below the caller's
\* threshold is rejected, whatever the threshold.
C2_BelowThresholdRejected ==
    (ctx = "chunk" /\ Stage1Called /\ Stage1Confidence < threshold)
        => verdict = "rejected"

\* C2 amended: a chunk whose stage-1 confidence is below the caller's
\* threshold and below the override level is rejected after stage 1 alone,
\* and does not make its interest or sentence pass.
C2_BelowThresholdAndOverrideRejected ==
    (ctx = "chunk" /\ Stage1Called
        /\ Stage1Confidence < threshold
        /\ Stage1Confidence < OVERRIDE_HIGH_CONFIDENCE)
        => (verdict = "rejected" /\ calls = <<1>> /\ ~passed)

\* A chunk at 0.60 rejected under the call sites' stricter threshold 0.75.
C2_Witness ==
    /\ ctx = "chunk"
    /\ Stage1Called
    /\ threshold = 75
    /\ Stage1Confidence = AI_RELATED_THRESHOLD
    /\ verdict = "rejected"

C4_NormalizedBeforeClassified ==
    Stage1Called
        => /\ strip(frag) # <<>>
           /\ clean_text(frag) # <<>>
           /\ is_english(frag, frag_lang)

\* C5: stage 2 is invoked for a fragment only after its stage 1 returned a
\* passing score below the override level, and each stage is invoked at
\* most once per evaluation, with at most one classifier call per stage.
C5_Stage2OnlyAfterPassingStage1 ==
    /\ calls \in {<<>>, <<1>>, <<1, 2>>}
    /\ inferences <= 1
    /\ (calls = <<1, 2>> \/ pc = "stage2")
          => /\ Stage1Called
             /\ StageThreshold <= Stage1Confidence
             /\ Stage1Confidence < OVERRIDE_HIGH_CONFIDENCE

\* Both stages were invoked for a chunk under the threshold 0.75.
C5_Witness ==
    /\ ctx = "chunk"
    /\ threshold = 75
    /\ calls = <<1, 2>>
    /\ verdict = "rejected"

\* The verdict of the cascade run on the classifier directly, without cache.
UncachedVerdict(text, t) ==
    LET p == AiScore(oracle[<<text, AI_RELATED_LABELS>>])
        step == CascadeStep(p, p >= t)
    IN  IF step = "accept" THEN "accepted"
        ELSE IF step = "reject" THEN "rejected"
        ELSE IF <<text, candidate_labels>> \notin DOMAIN oracle THEN "none"
        ELSE IF SecondCheck(oracle[<<text, candidate_labels>>], AI_SKILL_MIN_CONFIDENCE)
             THEN "accepted"
             ELSE "rejected"

\* C7: whatever the cache holds or has evicted, cached_zero_shot returns
\* what the classifier returns for the text and labels, and every verdict of
\* the filters is the verdict of the same cascade run without the cache.
C7_CacheTransparent ==
    /\ lastCall # NoCall => lastCall.ret = oracle[<<lastCall.text, lastCall.items>>]
    /\ (Stage1Called /\ verdict # "none")
          => verdict = UncachedVerdict(frag, StageThreshold)

\* A verdict reached on a cache hit, after more keys than the cache holds
\* were classified.
C7_Witness ==
    /\ lastCall # NoCall
    /\ inferences = 0
    /\ verdict # "none"
    /\ Cardinality(DOMAIN oracle) > maxsize

(***************************************************************************)
(* Claims about the functions of the cascade called directly (Spec)        *)
(***************************************************************************)
\* The text is empty or holds white space only.
IsBlank(text) == \A i \in 1..Len(text) : text[i] = " "

\* No classifier call and no keyphrase-extractor call was made in the run.
NoExternalCall == DOMAIN oracle = {} /\ lastCall = NoCall /\ kw_calls = <<>>

\* C11: for an empty or whitespace-only text classify_ai returns (False, 0.0),
\* second_classification_check returns False and extract_key_phrases returns
\* [], an empty or whitespace-only interest or title gives no output entry,
\* and none of them calls the classifier or the keyphrase extractor.
C11_BlankTextRejectedWithoutCalls ==
    /\ (fn.name = "classify_ai" /\ IsBlank(fn.text))
          => (fn.ret = [is_ai |-> FALSE, ai_score |-> 0] /\ NoExternalCall)
    /\ (fn.name = "second_classification_check" /\ IsBlank(fn.text))
          => (fn.ret = FALSE /\ NoExternalCall)
    /\ (fn.name = "extract_key_phrases" /\ IsBlank(fn.text))
          => (fn.ret = <<>> /\ NoExternalCall /\ pc \in {"extract", "emit", "done"})
    /\ (mode \in {"interests", "publications"} /\ pc # "idle"
            /\ \A i \in 1..Len(inputs) : IsBlank(inputs[i]))
          => (out = <<>> /\ NoExternalCall /\ pc \in {"item", "done"})

\* classify_ai was called with white space only and the threshold 0.
C11_Witness ==
    /\ fn.name = "classify_ai"
    /\ fn.text = <<" ", " ">>
    /\ fn.arg = <<0>>
    /\ pc = "done"

\* C12: for a text that is not blank, classify_ai returns as confidence the
\* score the classifier gives "Artificial Intelligence", and is_ai is true
\* exactly when that confidence is at least the threshold, 0.60 when the
\* caller passes none.
C12_ClassifyAiScoreAndVerdict ==
    (fn.name = "classify_ai" /\ ~IsBlank(fn.text))
        => LET r == oracle[<<fn.text, AI_RELATED_LABELS>>]
               t == IF fn.arg = <<>> THEN AI_RELATED_THRESHOLD ELSE fn.arg[1]
           IN  /\ \A i \in 1..Len(r.labels) :
                     r.labels[i] = "Artificial Intelligence"
                        => fn.ret.ai_score = r.scores[i]
               /\ fn.ret.is_ai <=> fn.ret.ai_score >= t

\* No threshold was passed and the score is exactly the default 0.60.
C12_Witness ==
    /\ fn.name = "classify_ai"
    /\ fn.arg = <<>>
    /\ fn.ret = [is_ai |-> TRUE, ai_score |-> AI_RELATED_THRESHOLD]

\* The classifier's answer to the direct call lacks the label.
LabelMissing(items, label) ==
    /\ <<fn.text, items>> \in DOMAIN oracle
    /\ \A i \in 1..Len(oracle[<<fn.text, items>>].labels) :
          oracle[<<fn.text, items>>].labels[i] # label

\* C13: when the classifier's response lacks the expected label, classify_ai
\* returns (False, 0.0) for every threshold and second_classification_check
\* returns False.
C13_MissingLabelNotRelevant ==
    /\ (fn.name = "classify_ai" /\ LabelMissing(AI_RELATED_LABELS, "Artificial Intelligence"))
          => fn.ret = [is_ai |-> FALSE, ai_score |-> 0]
    /\ (fn.name = "second_classification_check" /\ LabelMissing(candidate_labels, "AI skill"))
          => fn.ret = FALSE

Classified(text) == <<text, AI_RELATED_LABELS>> \in DOMAIN oracle

\* The cascade's verdict on a text at threshold t, read off the classifier's
\* answers: the override, or stage 1 and stage 2 both passed.
PassesCascade(text, t) ==
    /\ Classified(text)
    /\ LET c == ScoreOf(oracle[<<text, AI_RELATED_LABELS>>], "Artificial Intelligence")
       IN  \/ c >= OVERRIDE_HIGH_CONFIDENCE
           \/ /\ c >= t
              /\ <<text, candidate_labels>> \in DOMAIN oracle
              /\ AiSkillPasses(text)

\* Some chunk of the text passes the cascade at threshold t.
SomeChunkPasses(text, t) ==
    \E i \in 1..Len(split_chunks(text)) : PassesCascade(split_chunks(text)[i], t)

\* The texts of the entries of an output list, in order.
EntryTexts(entries) == [i \in 1..Len(entries) |-> entries[i].text]

\* C15: filter_ai_interests returns, in input order, one entry for each
\* interest that is non-empty after trimming and has a chunk that passes the
\* cascade at the caller's threshold, and no other entry.
C15_InterestsWithPassingChunkInOrder ==
    (mode = "interests" /\ pc = "done")
        => EntryTexts(out) =
              SelectSeq(MapStrip(inputs),
                        LAMBDA x : x # <<>> /\ SomeChunkPasses(x, threshold))

\* Two different interests were both kept.
C15_Witness ==
    /\ mode = "interests"
    /\ pc = "done"
    /\ Len(inputs) = 2
    /\ Len(out) = 2
    /\ out[1].text # out[2].text

\* C16: every entry of filter_ai_interests has a non-empty skills list: the
\* list extract_key_phrases returned for the full trimmed interest, or, when
\* that list is empty, the trimmed interest alone.
C16_InterestSkillsOrTextItself ==
    mode = "interests"
        => /\ \A i \in 1..Len(out) : out[i].skills # <<>>
           /\ (pc \in {"item", "done"} /\ passed)
                 => /\ out # <<>>
                    /\ kw_calls # <<>>
                    /\ kw_calls[Len(kw_calls)] = sent
                    /\ \E i \in 1..Len(inputs) : sent = strip(inputs[i])
                    /\ out[Len(out)].text = sent
                    /\ out[Len(out)].skills = (IF skills = <<>> THEN <<sent>> ELSE skills)

\* An interest of two chunks was kept with itself as its only skill.
C16_Witness ==
    /\ mode = "interests"
    /\ pc = "done"
    /\ passed
    /\ skills = <<>>
    /\ Len(split_chunks(sent)) = 2
    /\ out = <<[text |-> sent, skills |-> <<sent>>]>>

\* The output entries for a log of extractions, in order.
EntriesOf(log) == [i \in 1..Len(log) |-> [text |-> log[i].text, skills |-> log[i].skills]]

\* C17: filter_ai_paragraphs emits an entry for a sentence only if some chunk
\* of it passed the cascade and extract_key_phrases returned at least one
\* phrase for it; a sentence that passed but yielded no keyphrase is dropped,
\* so every entry has a non-empty skills list.
C17_ParagraphEntryNeedsPassAndPhrases ==
    mode = "paragraphs"
        => /\ \A i \in 1..Len(out) :
                /\ out[i].skills # <<>>
                /\ SomeChunkPasses(out[i].text, threshold)
           /\ \A k \in 1..Len(extractions) : SomeChunkPasses(extractions[k].text, threshold)
           /\ out = EntriesOf(SelectSeq(extractions, LAMBDA e : e.skills # <<>>))

\* Of two sentences that passed the cascade, the first yielded no keyphrase
\* and was dropped, the second was kept.
C17_Witness ==
    /\ mode = "paragraphs" /\ pc = "done"
    /\ Len(extractions) = 2
    /\ extractions[1].skills = <<>>
    /\ out = <<[text |-> extractions[2].text, skills |-> extractions[2].skills]>>

\* A sentence that is a year or a number: after trimming it holds four digits
\* in a row, or nothing but digits.
YearOrNumber(text) ==
    LET t == strip(text)
    IN  \/ t # <<>> /\ \A i \in 1..Len(t) : t[i] \in Digits
        \/ \E i \in 1..Len(t) : i + 3 <= Len(t) /\ \A j \in i..(i + 3) : t[j] \in Digits

\* The sentence of a tested-sentence record was not taken for English: it has
\* three words or more and the detector answered another language or threw.
NotEnglish(e) == Len(split(e.text)) >= 3 /\ e.lang # "en"

\* The sentence loop skips the sentence of this record.
Skipped(e) == YearOrNumber(e.text) \/ NotEnglish(e)

\* The filter is working on a sentence: classifying its chunks, extracting or
\* refining its keyphrases, or adding its entry.
InSentence == pc \in {"chunk_loop", "stage1", "stage2", "extract", "refine_loop", "emit"}

\* C18: in filter_ai_paragraphs and filter_ai_publications the classifier is
\* never called on a chunk of a sentence for which is_year_or_numeric is true
\* or is_english is false, and such a sentence gives no output entry and no
\* skill: whatever is classified or extracted belongs to the sentence tested
\* last, which was not skipped.
C18_SkippedSentenceNeverClassified ==
    mode \in {"paragraphs", "publications"}
        => /\ InSentence
                => /\ exams # <<>>
                   /\ exams[Len(exams)].text = sent
                   /\ ~Skipped(exams[Len(exams)])
           /\ (pc \in {"stage1", "stage2"} /\ ctx = "chunk")
                => \E i \in 1..Len(split_chunks(sent)) : frag = split_chunks(sent)[i]
           /\ (\A k \in 1..Len(exams) : Skipped(exams[k]))
                => /\ NoExternalCall
                   /\ extractions = <<>> /\ out = <<>> /\ sent_skills = <<>>
           /\ Len(extractions) <= Len(SelectSeq(exams, LAMBDA e : ~Skipped(e)))
           /\ \A k \in 1..Len(extractions) :
                \E j \in 1..Len(exams) :
                    exams[j].text = extractions[k].text /\ ~Skipped(exams[j])

\* A paragraph list with a number and a sentence that was kept: the number was
\* tested and skipped, and the only entry is the other sentence's.
C18_Witness ==
    /\ mode = "paragraphs" /\ pc = "done"
    /\ Len(exams) = 2
    /\ YearOrNumber(exams[1].text)
    /\ ~Skipped(exams[2])
    /\ Len(out) = 1 /\ out[1].text = exams[2].text
    /\ \A key \in DOMAIN oracle : key[1] # exams[1].text

\* A three-word title that the detector did not take for English: nothing was
\* classified and the publication is not returned.
C18_WitnessNotEnglish ==
    /\ mode = "publications" /\ pc = "done"
    /\ exams = <<[idx |-> 1, text |-> LongText, lang |-> "fr"]>>
    /\ NoExternalCall /\ out = <<>>

\* The positions 1..n in order.
Positions(n) == [i \in 1..n |-> i]

\* The keyphrases extracted for the input element at position i.
SkillsOf(i) ==
    UNION { SeqRange(extractions[k].skills) :
              k \in { k \in 1..Len(extractions) : extractions[k].idx = i } }

\* The positions of the publications that accumulated a skill, in input order.
WithSkills == SelectSeq(Positions(Len(inputs)), LAMBDA i : SkillsOf(i) # {})

\* The texts of the records of a log that belong to position i, in order.
TextsAt(log, i) == EntryTexts(SelectSeq(log, LAMBDA e : e.idx = i))

\* The sentences tested for position i that were not skipped and have a chunk
\* that passed the cascade.
PassingSentences(i) ==
    TextsAt(SelectSeq(exams, LAMBDA e : ~Skipped(e) /\ SomeChunkPasses(e.text, threshold)), i)

\* C19: filter_ai_publications returns, in input order, exactly the
\* publications with a non-empty title that accumulated at least one skill;
\* the skills of a returned publication are non-empty, without duplicates, and
\* as a set the union of the keyphrases extracted from all the passing
\* sentences of its title.
C19_PublicationsWithUnionOfSkills ==
    (mode = "publications" /\ pc = "done")
        => /\ Len(out) = Len(WithSkills)
           /\ \A i \in 1..Len(inputs) : TextsAt(extractions, i) = PassingSentences(i)
           /\ \A j \in 1..Len(out) :
                /\ out[j].text = inputs[WithSkills[j]]
                /\ strip(out[j].text) # <<>>
                /\ out[j].skills # <<>>
                /\ \A a, b \in 1..Len(out[j].skills) :
                      out[j].skills[a] = out[j].skills[b] => a = b
                /\ SeqRange(out[j].skills) = SkillsOf(WithSkills[j])

\* Two passing sentences of one title gave the same keyphrase, and the
\* publication carries it once.
C19_Witness ==
    /\ mode = "publications" /\ pc = "done"
    /\ Len(extractions) = 2
    /\ extractions[1].idx = extractions[2].idx
    /\ extractions[1].skills # <<>>
    /\ extractions[1].skills = extractions[2].skills
    /\ Len(out) = 1
    /\ out[1].skills = extractions[1].skills

\* Two passing sentences of one title gave different keyphrases, and the
\* publication carries both.
C19_WitnessUnion ==
    /\ mode = "publications" /\ pc = "done"
    /\ Len(extractions) = 2
    /\ extractions[1].idx = extractions[2].idx
    /\ extractions[1].skills # <<>> /\ extractions[2].skills # <<>>
    /\ extractions[1].skills # extractions[2].skills
    /\ Len(out) = 1
    /\ Len(out[1].skills) = 2

\* The text holds digits and nothing else.
OnlyDigits(text) == text # <<>> /\ \A i \in 1..Len(text) : text[i] \in Digits

\* A chunk of a title is at the classifier, or was.
TitleChunkClassified == mode = "publications" /\ ctx = "chunk" /\ Stage1Called

\* C20 as stated: in filter_ai_publications a chunk that consists only of a
\* year or a number is never passed to the classifier.
C20_NumericChunkNeverClassified == TitleChunkClassified => ~OnlyDigits(frag)

\* What the sentence test does ensure: a chunk with four digits in a row, a
\* year, is never passed to the classifier, because its whole sentence is
\* skipped.
C20_YearChunkNeverClassified ==
    TitleChunkClassified
        => ~\E i \in 1..Len(frag) : i + 3 <= Len(frag) /\ \A j \in i..(i + 3) : frag[j] \in Digits

\* A title with a year split out by a delimiter was examined, and nothing of
\* it was classified.
C20_YearWitness ==
    /\ mode = "publications" /\ pc = "done"
    /\ inputs = <<YearTitle>>
    /\ exams # <<>>
    /\ NoExternalCall

\* The text holds no digit.
NoDigit(text) == \A i \in 1..Len(text) : text[i] \notin Digits

\* A tested sentence taken for English in which one chunk is only a year or a
\* number and another chunk holds no digit at all.
NumberBesideWords(e) ==
    /\ ~NotEnglish(e)
    /\ \E i, j \in 1..Len(split_chunks(e.text)) :
          OnlyDigits(split_chunks(e.text)[i]) /\ NoDigit(split_chunks(e.text)[j])

\* The cascade was applied to the sentence: a chunk of it was classified.
SentenceEvaluated(text) ==
    \E i \in 1..Len(split_chunks(text)) : Classified(split_chunks(text)[i])

\* C21 as stated: in filter_ai_publications a chunk that is only a year or a
\* number does not keep the other chunks of its sentence from the cascade.
C21_NumericChunkDoesNotBlockSentence ==
    (mode = "publications" /\ pc = "done")
        => \A k \in 1..Len(exams) :
              NumberBesideWords(exams[k]) => SentenceEvaluated(exams[k].text)

\* What the code does ensure: a number of fewer than four digits in one chunk
\* does not keep the other chunks from the cascade.
C21_ShortNumberDoesNotBlockSentence ==
    (mode = "publications" /\ pc = "done")
        => \A k \in 1..Len(exams) :
              (NumberBesideWords(exams[k]) /\ ~HasDigitRun(exams[k].text))
                  => SentenceEvaluated(exams[k].text)

\* A title with a short number beside a word was tested, and the word made the
\* publication pass.
C21_ShortNumberWitness ==
    /\ mode = "publications" /\ pc = "done"
    /\ Len(exams) = 1
    /\ NumberBesideWords(exams[1])
    /\ Len(out) = 1

\* p occurs in q as a run of consecutive characters.
Contains(p, q) ==
    \E off \in 0..(Len(q) - Len(p)) : \A j \in 1..Len(p) : q[off + j] = p[j]

\* The phrases of a collection that no other phrase of it contains.
Maximal(S) == { p \in S : ~\E q \in S \ {p} : Contains(p, q) }

\* C22: remove_substring_phrases returns, longest first and without
\* duplicates, exactly the distinct input phrases that are not a substring of
\* another distinct input phrase; so no returned phrase is a substring of
\* another returned one, and every input phrase is contained in a returned one.
C22_RemoveSubstringsKeepsMaximal ==
    fn.name = "remove_substring_phrases"
        => /\ \A a, b \in 1..Len(fn.ret) : fn.ret[a] = fn.ret[b] => a = b
           /\ \A a, b \in 1..Len(fn.ret) : a < b => Len(fn.ret[a]) >= Len(fn.ret[b])
           /\ SeqRange(fn.ret) = Maximal(SeqRange(fn.arg))
           /\ \A a, b \in 1..Len(fn.ret) : a # b => ~Contains(fn.ret[a], fn.ret[b])
           /\ \A i \in 1..Len(fn.arg) : \E k \in 1..Len(fn.ret) : Contains(fn.arg[i], fn.ret[k])

\* A word, a repeated word and a longer phrase that ends with the word: the
\* longer phrase alone is returned.
C22_Witness ==
    /\ fn.name = "remove_substring_phrases"
    /\ fn.arg = <<<<"b">>, <<"a", " ", "b">>, <<"b">>>>
    /\ fn.ret = <<<<"a", " ", "b">>>>

\* The number of whitespace-separated tokens of a text.
TokenCount(text) == Len(split(text))

\* C27: is_english returns True for a non-empty text of fewer than 3
\* whitespace-separated tokens without consulting the language detector; for a
\* longer text it returns True exactly when the detector reports English, and
\* False, not an exception, when the detector fails.
C27_IsEnglishShortOrDetected ==
    fn.name = "is_english"
        => /\ (fn.text # <<>> /\ TokenCount(fn.text) < 3)
                => (fn.ret = TRUE /\ fn.arg = <<>>)
           /\ TokenCount(fn.text) >= 3
                => /\ Len(fn.arg) = 1
                   /\ fn.ret = (fn.arg[1] = "en")
           /\ fn.ret \in BOOLEAN

\* The detector failed on a three-word text and is_english returned False.
C27_Witness ==
    /\ fn.name = "is_english"
    /\ fn.text = LongText
    /\ fn.arg = <<"raise">>
    /\ fn.ret = FALSE

\* A whitespace-only text is taken for English without the detector.
C27_WitnessShort ==
    /\ fn.name = "is_english"
    /\ fn.text = <<" ">>
    /\ fn.arg = <<>>
    /\ fn.ret = TRUE

\* Every phrase extract_key_phrases returned to the filter passes the
\* classifier stages of the cascade at stage-1 threshold t.
ExtractedPhrasesPass(t) ==
    \A k \in 1..Len(extractions) :
        \A i \in 1..Len(extractions[k].skills) : PassesCascade(extractions[k].skills[i], t)

\* C26 as stated: every phrase returned by extract_key_phrases has passed the
\* cascade at the stage-1 threshold that the calling filter applied to the
\* source text.
C26_PhrasesPassAtCallerThreshold == mode \in Modes => ExtractedPhrasesPass(threshold)

\* What the code does ensure: every returned phrase is normalised and has
\* passed the cascade at refine_phrases' own default threshold.
C26_PhrasesPassAtDefaultThreshold ==
    mode \in Modes
        => /\ ExtractedPhrasesPass(AI_RELATED_THRESHOLD)
           /\ \A k \in 1..Len(extractions) :
                \A i \in 1..Len(extractions[k].skills) :
                    /\ extractions[k].skills[i] # <<>>
                    /\ clean_text(extractions[k].skills[i]) = extractions[k].skills[i]

\* An interest filtered at 0.75 whose returned phrase scored below 0.75.
C26_DefaultThresholdWitness ==
    /\ mode = "interests" /\ pc = "done" /\ threshold = 75
    /\ Len(extractions) = 1
    /\ Len(extractions[1].skills) = 1
    /\ ScoreOf(oracle[<<extractions[1].skills[1], AI_RELATED_LABELS>>],
               "Artificial Intelligence") = AI_RELATED_THRESHOLD

\* The skills of the items of one argument of combine_all_ai_skills, as a
\* set: nothing for None and for an item without a skills key.
SkillSetOf(arg) ==
    IF arg = <<>> THEN {}
    ELSE UNION { IF arg[1][i] = <<>> THEN {} ELSE SeqRange(arg[1][i][1]) : i \in 1..Len(arg[1]) }

\* C24: combine_all_ai_skills returns a list without duplicates whose
\* elements are exactly the union of the skills lists of the items of its
\* three arguments; None and an item without a skills key add nothing.
C24_CombineIsUnionOfSkills ==
    fn.name = "combine_all_ai_skills"
        => /\ \A a, b \in 1..Len(fn.ret) : fn.ret[a] = fn.ret[b] => a = b
           /\ SeqRange(fn.ret) =
                 SkillSetOf(fn.arg[1]) \cup SkillSetOf(fn.arg[2]) \cup SkillSetOf(fn.arg[3])

\* Interests with two skills, publications with one of them and a third,
\* paragraphs None: the three skills once each.
C24_Witness ==
    /\ fn.name = "combine_all_ai_skills"
    /\ fn.arg[1] = ListOf(<<ItemWith(<<SkillA, SkillB>>)>>)
    /\ fn.arg[2] = ListOf(<<ItemWith(<<SkillB>>), ItemWith(<<SkillAB>>)>>)
    /\ fn.arg[3] = None
    /\ Len(fn.ret) = 3

\* No phrase of the list is a substring of another phrase of it.
SubstringFree(phr) ==
    \A a, b \in 1..Len(phr) : phr[a] # phr[b] => ~Contains(phr[a], phr[b])

\* The argument is what a filter returns: a list of items, each with a
\* non-empty skills list in which no phrase is a substring of another.
FilterOutput(arg) ==
    /\ arg # None
    /\ \A i \in 1..Len(arg[1]) :
          /\ arg[1][i] # ItemWithoutSkills
          /\ arg[1][i][1] # <<>>
          /\ SubstringFree(arg[1][i][1])

\* C23 as stated: in the list combine_all_ai_skills returns over a person's
\* interests, publications and paragraphs, no phrase is a substring of another.
C23_CombinedSkillsSubstringFree ==
    (/\ fn.name = "combine_all_ai_skills"
     /\ \A k \in 1..3 : fn.arg[k] = None \/ FilterOutput(fn.arg[k]))
        => SubstringFree(fn.ret)

\* The two outputs of the failing call are outputs of the filters: the
\* interest "a" with the skill "a" ...
C23_InterestSkillReached ==
    /\ mode = "interests" /\ pc = "done"
    /\ out = <<[text |-> SkillA, skills |-> <<SkillA>>]>>

\* ... and the paragraph "a b" with the skill "a b".
C23_ParagraphSkillReached ==
    /\ mode = "paragraphs" /\ pc = "done"
    /\ out = <<[text |-> SkillAB, skills |-> <<SkillAB>>]>>


(***************************************************************************)
(* The runs of the scrapers                                                *)
(***************************************************************************)
\* No index page is in the log of the discovery twice.
FetchedOnce ==
    \A i, j \in 1..Len(fetch_log) : i # j => fetch_log[i].url # fetch_log[j].url

\* A fetch that failed is the last fetch of the discovery.
ErrorEndsDiscovery ==
    \A i \in 1..Len(fetch_log) : ~fetch_log[i].ok => i = Len(fetch_log)

\* The discovery loop is left.
DiscoveryEnds == (rpc = "index") ~> (rpc = "discovered")

\* C30: the index discovery of run_leeds_scraper fetches every index page at
\* most once, fetches no page after a fetch that failed, and ends, whatever
\* next-page links the pages hold (links back to a fetched page and links to
\* the page itself included).
C30_DiscoveryFetchesOnceAndEnds == [](FetchedOnce /\ ErrorEndsDiscovery) /\ DiscoveryEnds

\* The discovery has ended on a next-page link that leads back to a page
\* fetched before: the links form a cycle.
C30_Witness ==
    /\ rpc = "discovered"
    /\ Len(fetch_log) = NumPages
    /\ \A i \in 1..Len(fetch_log) : fetch_log[i].ok
    /\ current_page_url \in processed_index_pages

\* The discovery has ended on a fetch that failed, with a page never fetched.
C30_WitnessError ==
    /\ rpc = "discovered"
    /\ fetch_log # <<>>
    /\ ~fetch_log[Len(fetch_log)].ok
    /\ processed_index_pages # IndexPages


\* C25: whatever runs of the two scrapers came before, with or without
\* force_update, every document of the collection has is_ai_lecturer true
\* exactly when its ai_skills list is not empty.
C25_FlagIffSkillsStored ==
    \A p \in Profiles :
        db[p].exists => (db[p].is_ai_lecturer <=> Len(db[p].ai_skills) > 0)

\* Both scrapers have written two documents, one with skills and one
\* without, and a further run is under way.
C25_Witness ==
    \E p, q \in Profiles :
        /\ db[p].exists /\ db[p].scholar_processed
        /\ db[q].exists /\ db[q].scholar_processed
        /\ db[p].is_ai_lecturer /\ db[p].ai_skills # <<>>
        /\ ~db[q].is_ai_lecturer /\ db[q].ai_skills = <<>>
        /\ force_update
        /\ rpc = "store"


\* The processing of a record begins.
RecordBegins == record' # NoRecord /\ record' # record

\* The filters of a record are left to the store or by an exception, and the
\* store is left with the record written.
RecordRunsToStore ==
    /\ rpc = "cascade" => rpc' \in {"cascade", "store", "except"}
    /\ (rpc = "store" /\ rpc' # "store") => (record \in stored' /\ db'[record].exists)

\* The run is over: it returned or an exception left it.
RunOver == rpc \in {"returned", "raised"}

\* C28: with the stop event set no scraper begins a record; the record in
\* progress goes through its filters to the store, whether the stop event is
\* set or not; a run that is over has written its delta report, and a run
\* during which the stop event is set gets to write it.
C28_StopBetweenRecordsOnly ==
    /\ [][(RecordBegins => ~stop_event) /\ RecordRunsToStore]_vars
    /\ [](RunOver => report_written)
    /\ ((Running /\ stop_event) ~> report_written)

\* A Leeds run has returned after the stop event was set in the middle of a
\* record: that record is stored, the report is written, and a profile was
\* left unvisited.
C28_Witness ==
    /\ scraper = "leeds"
    /\ rpc = "returned"
    /\ stop_event
    /\ at_stop # NoRecord
    /\ at_stop \in stored
    /\ todo # {}
    /\ report_written

\* The same for a Scholar run.
C28_WitnessScholar ==
    /\ scraper = "scholar"
    /\ rpc = "returned"
    /\ stop_event
    /\ at_stop # NoRecord
    /\ at_stop \in stored
    /\ todo # {}
    /\ report_written


\* The exception of the classifier is handled: the loop is back at its head
\* with the records it had still to visit, and no exception is in flight.
FaultSkipsRecordOnly ==
    (rpc = "except" /\ rpc' # "except") => (rpc' = "profiles" /\ todo' = todo /\ ~exc')

\* C29: when the classifier raises during a record, the loop of either
\* scraper drops that record and goes on with the records that remain.
C29_FaultSkipsRecordOnly == [][FaultSkipsRecordOnly]_vars

\* For run_scholar_scraper alone the same holds.
C29_ScholarFaultSkipsRecordOnly == [][scraper = "scholar" => FaultSkipsRecordOnly]_vars

\* The classifier has raised during a record of a Scholar run that has
\* records left to visit.
C29_ScholarWitness ==
    /\ scraper = "scholar"
    /\ rpc = "except"
    /\ exc
    /\ todo # {}

\* The same in a Leeds run.
C29_LeedsFault ==
    /\ scraper = "leeds"
    /\ rpc = "except"
    /\ exc
    /\ todo # {}

====
